---- MODULE Spec2Model ----
(***************************************************************************)
(* graphql-middleware-jaeger: the middleware returned by                   *)
(* graphqlJaegerMiddleware (src/src/index.ts).  One invocation is the      *)
(* async callback handed to tracer.startRootSpan; its steps are the code   *)
(* segments between two awaits, interleaved with the segments of the       *)
(* other invocations of the same middleware instance.                      *)
(***************************************************************************)
EXTENDS Integers, Sequences, FiniteSets, TLC

\* ---------------------------------------------------------------- bounds
NumInv == 2        \* invocations of one middleware instance
MaxHooks == 2      \* hook functions registered in all, over the three names

\* ---------------------------------------------------------------- values
Undefined == "undefined"
Invs == 1 .. NumInv
HookNames == {"preResolve", "postResolve", "resolveError"}
ContextName(n) == "ctx" \o ToString(n)
Contexts == {ContextName(1), ContextName(2)}    \* context objects the caller may pass
Parents == {"parent"}
Args == {"args"}
Infos == {"info"}
Values == {"v1"}                \* what the wrapped resolver may return
Errors == {"E1"}                \* what the wrapped resolver may throw
HookErrors == {"H1"}            \* what a hook may throw

\* the tracer created by tracing.start(tracerConfig) at factory time
tracer == "tracer"

\* hooks: IMiddlewareHooks, a mapping name -> array of hook functions.  The
\* value under a key is an array, or something Array.isArray rejects: undefined
\* (the key is absent, or hooks was omitted and defaults to {}) or any other
\* non-array.  A hook function is named by its position in its array.
NotArray == [type |-> "notArray", fns |-> << >>]
ArrayOf(n) == [type |-> "array", fns |-> [k \in 1 .. n |-> k]]
HookEntries == {NotArray} \cup { ArrayOf(n) : n \in 0 .. MaxHooks }
Registered(r) ==
    Len(r["preResolve"].fns) + Len(r["postResolve"].fns) + Len(r["resolveError"].fns)
Registries == { r \in [HookNames -> HookEntries] : Registered(r) <= MaxHooks }

VARIABLES
    hooks,          \* the registry closed over by the middleware
    pc,             \* per invocation: where the async callback is suspended
    call,           \* per invocation: the (parent, args, context, info) it was given
    span,           \* per invocation: the span startRootSpan handed to the callback
    data,           \* per invocation: local `data` (line 107)
    err,            \* per invocation: local `err` of the catch clause (line 118)
    hookFnContext,  \* per invocation: the record of the runHook call in progress
    running,        \* per invocation: positions of the hook functions in progress
    dispatched,     \* per invocation: state of the runHook promise being awaited
    spansCreated,   \* tracer: number of root spans created so far
    started,        \* span -> number of span.start() calls
    ended,          \* span -> number of span.end() calls
    tracing,        \* context object -> its `tracing` field
    hookLog,        \* per invocation: hook calls and completions, in order
    resolverCalls,  \* per invocation: argument lists the resolver was called with
    resolved,       \* per invocation: what the wrapped resolver did
    settled,        \* per invocation: pResolve / pReject calls, in order
    middlewareOptions, \* the middlewareOptions closed over by the middleware
    spanOptions,    \* per invocation: the options it passed to startRootSpan
    trace           \* per invocation: its calls on the span, the resolver and
                    \* the promise, in order, each with the number of hook
                    \* events logged before it

vars == << hooks, pc, call, span, data, err, hookFnContext, running, dispatched,
           spansCreated, started, ended, tracing, hookLog, resolverCalls,
           resolved, settled, middlewareOptions, spanOptions, trace >>

\* the n-th span the tracer creates
SpanId(n) == "span" \o ToString(n)
Spans == { SpanId(n) : n \in 1 .. NumInv }

\* TraceOptions: rootSpanOptions is undefined (unset) or an object with a name
Unset == [kind |-> "undefined", name |-> Undefined]
TraceOptions(n) == [kind |-> "object", name |-> n]
SpanNames == {"custom"}
RootSpanOptions == {Unset} \cup { TraceOptions(n) : n \in SpanNames }

\* defaultOptions, lines 40-44
defaultOptions == [rootSpanOptions |-> TraceOptions("graphqlRequest")]

\* mutant: a && b in place of a || b
AndAlso(a, b) == IF a.kind # "undefined" THEN b ELSE a

\* a || b of line 92: an object is truthy, undefined is not
OrElse(a, b) == IF a.kind # "undefined" THEN a ELSE b

\* the first argument of tracer.startRootSpan, line 92
StartRootSpanOptions(mo) == OrElse(mo.rootSpanOptions, defaultOptions.rootSpanOptions)

\* a promise: pending, fulfilled or rejected with a value
Pending == [kind |-> "pending", value |-> Undefined]
Ok == [kind |-> "ok", value |-> Undefined]
Thrown(e) == [kind |-> "throw", value |-> e]

NoCall == [parent |-> Undefined, args |-> Undefined, context |-> Undefined, info |-> Undefined]
NoRecord == [rootSpan |-> Undefined, context |-> Undefined, parent |-> Undefined,
             args |-> Undefined, info |-> Undefined, resolvedData |-> Undefined,
             err |-> Undefined]
NoTracing == [tracer |-> Undefined, rootSpan |-> Undefined]

Init ==
    /\ hooks \in Registries
    /\ pc = [i \in Invs |-> "idle"]
    /\ call = [i \in Invs |-> NoCall]
    /\ span = [i \in Invs |-> Undefined]
    /\ data = [i \in Invs |-> Undefined]
    /\ err = [i \in Invs |-> Undefined]
    /\ hookFnContext = [i \in Invs |-> NoRecord]
    /\ running = [i \in Invs |-> {}]
    /\ dispatched = [i \in Invs |-> Pending]
    /\ spansCreated = 0
    /\ started = [s \in Spans |-> 0]
    /\ ended = [s \in Spans |-> 0]
    /\ tracing = [c \in Contexts |-> NoTracing]
    /\ hookLog = [i \in Invs |-> << >>]
    /\ resolverCalls = [i \in Invs |-> << >>]
    /\ resolved = [i \in Invs |-> Pending]
    /\ settled = [i \in Invs |-> << >>]
    /\ middlewareOptions = [rootSpanOptions |-> Unset]
    /\ spanOptions = [i \in Invs |-> Unset]
    /\ trace = [i \in Invs |-> << >>]

\* ------------------------------------------------------------ runHook
RECURSIVE Ascending(_)
Ascending(S) ==
    IF S = {} THEN << >>
    ELSE LET m == CHOOSE x \in S : \A y \in S : x <= y
         IN << m >> \o Ascending(S \ {m})

Event(ev, name, k, rec, value) ==
    [ev |-> ev, name |-> name, k |-> k, rec |-> rec, value |-> value]

\* Array.isArray(hook), line 58
IsArray(hook) == hook.type = "array"

\* mutant: every hook function is called at once and the results are awaited
\* together (a fan-out instead of the loop's await)
FirstCallsAll(hook) == 1 .. Len(hook.fns)

\* the hook functions called before runHook first suspends (lines 62-63)
FirstCalls(hook) == IF Len(hook.fns) > 0 THEN {1} ELSE {}

\* the hook functions called when the await of hook k resumes (lines 62-64)
NextCalls(hook, k) == IF k < Len(hook.fns) THEN {k + 1} ELSE {}

\* mutant: the Array.isArray test of line 58 is missing, so iterating over a
\* value that is no array throws
DispatchStartNoCheck(hook) ==
    IF ~IsArray(hook)
    THEN [calls |-> {}, result |-> Thrown("TypeError")]
    ELSE [calls |-> FirstCalls(hook),
          result |-> IF FirstCalls(hook) = {} THEN Ok ELSE Pending]

\* runHook up to its first suspension: the hooks it called, and its promise
DispatchStart(hook) ==
    IF ~IsArray(hook)
    THEN [calls |-> {}, result |-> Ok]
    ELSE [calls |-> FirstCalls(hook),
          result |-> IF FirstCalls(hook) = {} THEN Ok ELSE Pending]

\* runHook(hooks, name, rec) called by invocation i
runHook(i, name, rec) ==
    LET start == DispatchStart(hooks[name])
    IN /\ hookFnContext' = [hookFnContext EXCEPT ![i] = rec]
       /\ running' = [running EXCEPT ![i] = start.calls]
       /\ dispatched' = [dispatched EXCEPT ![i] = start.result]
       /\ hookLog' = [hookLog EXCEPT ![i] =
              @ \o [n \in 1 .. Cardinality(start.calls) |->
                      Event("call", name, Ascending(start.calls)[n], rec, Undefined)]]

\* mutant: the promise of runHook is not awaited
NotAwaited(p) == TRUE

\* `await` of a promise p lets the caller go on once p is no longer pending
Awaited(p) == p.kind # "pending"

\* hook k of the dispatch in progress returns (its promise is fulfilled) and
\* the loop of runHook goes on: lines 62-65
HookReturns(i, k) ==
    /\ pc[i] \in HookNames
    /\ dispatched[i] = Pending
    /\ k \in running[i]
    /\ LET hook == hooks[pc[i]]
           next == NextCalls(hook, k)
           left == (running[i] \ {k}) \cup next
       IN /\ running' = [running EXCEPT ![i] = left]
          /\ dispatched' = [dispatched EXCEPT ![i] = IF left = {} THEN Ok ELSE Pending]
          /\ hookLog' = [hookLog EXCEPT ![i] =
                 (@ \o << Event("return", pc[i], k, hookFnContext[i], Undefined) >>)
                 \o [n \in 1 .. Cardinality(next) |->
                       Event("call", pc[i], Ascending(next)[n], hookFnContext[i], Undefined)]]
    /\ UNCHANGED << hooks, pc, call, span, data, err, hookFnContext, spansCreated,
                    started, ended, tracing, resolverCalls, resolved, settled,
                    middlewareOptions, spanOptions, trace >>

\* mutant: the loop of runHook catches the error of a hook and goes on with
\* the next one
HookThrowsCaught(i, k, h) ==
    /\ pc[i] \in HookNames
    /\ dispatched[i] = Pending
    /\ k \in running[i]
    /\ LET next == NextCalls(hooks[pc[i]], k)
           left == (running[i] \ {k}) \cup next
       IN /\ running' = [running EXCEPT ![i] = left]
          /\ dispatched' = [dispatched EXCEPT ![i] = IF left = {} THEN Ok ELSE Pending]
          /\ hookLog' = [hookLog EXCEPT ![i] =
                 (@ \o << Event("throw", pc[i], k, hookFnContext[i], h) >>)
                 \o [n \in 1 .. Cardinality(next) |->
                       Event("call", pc[i], Ascending(next)[n], hookFnContext[i], Undefined)]]
    /\ UNCHANGED << hooks, pc, call, span, data, err, hookFnContext, spansCreated,
                    started, ended, tracing, resolverCalls, resolved, settled,
                    middlewareOptions, spanOptions, trace >>

\* hook k throws (its promise is rejected) with h: the await of line 63 throws
\* and runHook's promise is rejected with h
HookThrows(i, k, h) ==
    /\ pc[i] \in HookNames
    /\ dispatched[i] = Pending
    /\ k \in running[i]
    /\ running' = [running EXCEPT ![i] = {}]
    /\ dispatched' = [dispatched EXCEPT ![i] = Thrown(h)]
    /\ hookLog' = [hookLog EXCEPT ![i] =
           @ \o << Event("throw", pc[i], k, hookFnContext[i], h) >>]
    /\ UNCHANGED << hooks, pc, call, span, data, err, hookFnContext, spansCreated,
                    started, ended, tracing, resolverCalls, resolved, settled,
                    middlewareOptions, spanOptions, trace >>

\* ------------------------------------------------- the middleware
\* the record of the preResolve dispatch, lines 98-102
PreRecord(c, s) ==
    [rootSpan |-> s, context |-> c.context, parent |-> c.parent, args |-> c.args,
     info |-> c.info, resolvedData |-> Undefined, err |-> Undefined]

\* mutant: the postResolve record is built like the preResolve one, without
\* the resolved data
PostRecordNoData(c, s, d) == PreRecord(c, s)

\* mutant: the postResolve record takes its rootSpan from context.tracing
\* instead of the callback's own span
PostRecordFromContext(c, s, d) ==
    [rootSpan |-> tracing[c.context].rootSpan, context |-> c.context,
     parent |-> c.parent, args |-> c.args, info |-> c.info, resolvedData |-> d,
     err |-> Undefined]

\* the record of the postResolve dispatch, lines 110-114
PostRecord(c, s, d) ==
    [rootSpan |-> s, context |-> c.context, parent |-> c.parent, args |-> c.args,
     info |-> c.info, resolvedData |-> d, err |-> Undefined]

\* the record of the resolveError dispatch, lines 120-125
ErrRecord(c, s, e) ==
    [rootSpan |-> s, context |-> c.context, parent |-> c.parent, args |-> c.args,
     info |-> c.info, resolvedData |-> Undefined, err |-> e]

\* mutant: the resolver is called without the info argument
ResolverArgsNoInfo(c) == << c.parent, c.args, c.context, Undefined >>

\* the arguments of resolve(parent, args, context, info), line 107
ResolverArgs(c) == << c.parent, c.args, c.context, c.info >>

\* the value handed to pResolve, line 117
Fulfilment(d) == [kind |-> "fulfilled", value |-> d]

\* mutant: the error is wrapped in a new one before it is handed to pReject
RejectionWrapped(e) == [kind |-> "rejected", value |-> "Error"]

\* the value handed to pReject, line 128
Rejection(e) == [kind |-> "rejected", value |-> e]

\* the calls of lines 91-93, 106-107, 116-117 and 127-128, in statement order
\* mutant: span.start() is called as soon as the span is opened, before the
\* preResolve dispatch
SpanOpeningStarted == << "startRootSpan", "span.start" >>
SpanOpening == << "startRootSpan" >>
ResolverEntry == << "span.start", "resolve" >>
SuccessExitSettleFirst == << "pResolve", "span.end" >>   \* mutant: lines 116-117 swapped
SuccessExit == << "span.end", "pResolve" >>
FailureExit == << "span.end", "pReject" >>

\* invocation i makes the calls ops, after the hook events logged so far
Traced(i, ops) ==
    trace' = [trace EXCEPT ![i] =
                 @ \o [n \in 1 .. Len(ops) |-> [op |-> ops[n], at |-> Len(hookLog[i])]]]

\* The context objects a call may be given: one an earlier call was given, or
\* the next object no call was given yet (objects are named in order of use).
Used == { call[j].context : j \in { x \in Invs : pc[x] # "idle" } }
FreshOrUsed ==
    Used \cup (IF ContextName(Cardinality(Used) + 1) \in Contexts
               THEN {ContextName(Cardinality(Used) + 1)} ELSE {})

\* The middleware is called: lines 85-98.  The tracing field is replaced on the
\* context, the tracer creates a root span and calls the callback with it, the
\* span is put on the context, and the preResolve dispatch starts.
\* Invocations are numbered in the order of their calls.
Invoke(i, parent, args, context, info) ==
    /\ pc[i] = "idle"
    /\ \A j \in Invs : j < i => pc[j] # "idle"
    /\ context \in FreshOrUsed
    /\ LET s == SpanId(spansCreated + 1)
           c == [parent |-> parent, args |-> args, context |-> context, info |-> info]
       IN /\ tracing' = [tracing EXCEPT ![context] = [tracer |-> tracer, rootSpan |-> s]]
          /\ spansCreated' = spansCreated + 1
          /\ span' = [span EXCEPT ![i] = s]
          /\ call' = [call EXCEPT ![i] = c]
          /\ runHook(i, "preResolve", PreRecord(c, s))
    /\ spanOptions' = [spanOptions EXCEPT ![i] = StartRootSpanOptions(middlewareOptions)]
    /\ Traced(i, SpanOpening)
    /\ pc' = [pc EXCEPT ![i] = "preResolve"]
    /\ UNCHANGED << hooks, data, err, started, ended, resolverCalls, resolved, settled,
                    middlewareOptions >>

\* the await of line 98 returns: span.start() and the call of the resolver,
\* lines 106-107
PreResolveDone(i) ==
    /\ pc[i] = "preResolve"
    /\ Awaited(dispatched[i])
    /\ dispatched[i].kind # "throw"
    /\ started' = [started EXCEPT ![span[i]] = @ + 1]
    /\ resolverCalls' = [resolverCalls EXCEPT ![i] = Append(@, ResolverArgs(call[i]))]
    /\ Traced(i, ResolverEntry)
    /\ pc' = [pc EXCEPT ![i] = "resolve"]
    /\ UNCHANGED << hooks, call, span, data, err, hookFnContext, running, dispatched,
                    spansCreated, ended, tracing, hookLog, resolved, settled,
                    middlewareOptions, spanOptions >>

\* mutant: the preResolve dispatch is inside the try block, so its error is
\* caught at line 118 and the resolveError dispatch starts
PreResolveThrewCaught(i) ==
    /\ pc[i] = "preResolve"
    /\ dispatched[i].kind = "throw"
    /\ err' = [err EXCEPT ![i] = dispatched[i].value]
    /\ runHook(i, "resolveError", ErrRecord(call[i], span[i], dispatched[i].value))
    /\ pc' = [pc EXCEPT ![i] = "resolveError"]
    /\ UNCHANGED << hooks, call, span, data, spansCreated, started, ended, tracing,
                    resolverCalls, resolved, settled, middlewareOptions, spanOptions,
                    trace >>

\* the await of line 98 throws, outside the try block of line 105: the async
\* callback ends with a rejected promise that startRootSpan's caller (line 91)
\* drops; neither pResolve nor pReject is called
PreResolveThrew(i) ==
    /\ pc[i] = "preResolve"
    /\ dispatched[i].kind = "throw"
    /\ pc' = [pc EXCEPT ![i] = "aborted"]
    /\ UNCHANGED << hooks, call, span, data, err, hookFnContext, running, dispatched,
                    spansCreated, started, ended, tracing, hookLog, resolverCalls,
                    resolved, settled, middlewareOptions, spanOptions, trace >>

\* mutant: pResolve(data) is called as soon as the resolver returns, before the
\* postResolve dispatch, and again at line 117
ResolverReturnsSettleFirst(i, v) ==
    /\ pc[i] = "resolve"
    /\ resolved[i] = Pending
    /\ resolved' = [resolved EXCEPT ![i] = [kind |-> "return", value |-> v]]
    /\ data' = [data EXCEPT ![i] = v]
    /\ settled' = [settled EXCEPT ![i] = Append(@, Fulfilment(v))]
    /\ Traced(i, << "pResolve" >>)
    /\ runHook(i, "postResolve", PostRecord(call[i], span[i], v))
    /\ pc' = [pc EXCEPT ![i] = "postResolve"]
    /\ UNCHANGED << hooks, call, span, err, spansCreated, started, ended, tracing,
                    resolverCalls, middlewareOptions, spanOptions >>

\* the resolver returns v (line 107): the postResolve dispatch starts, line 110
ResolverReturns(i, v) ==
    /\ pc[i] = "resolve"
    /\ resolved[i] = Pending
    /\ resolved' = [resolved EXCEPT ![i] = [kind |-> "return", value |-> v]]
    /\ data' = [data EXCEPT ![i] = v]
    /\ runHook(i, "postResolve", PostRecord(call[i], span[i], v))
    /\ pc' = [pc EXCEPT ![i] = "postResolve"]
    /\ UNCHANGED << hooks, call, span, err, spansCreated, started, ended, tracing,
                    resolverCalls, settled, middlewareOptions, spanOptions, trace >>

\* the resolver throws e (line 107): the catch clause of line 118 starts the
\* resolveError dispatch, line 120
ResolverThrows(i, e) ==
    /\ pc[i] = "resolve"
    /\ resolved[i] = Pending
    /\ resolved' = [resolved EXCEPT ![i] = [kind |-> "throw", value |-> e]]
    /\ err' = [err EXCEPT ![i] = e]
    /\ runHook(i, "resolveError", ErrRecord(call[i], span[i], e))
    /\ pc' = [pc EXCEPT ![i] = "resolveError"]
    /\ UNCHANGED << hooks, call, span, data, spansCreated, started, ended, tracing,
                    resolverCalls, settled, middlewareOptions, spanOptions, trace >>

\* the await of line 110 returns: span.end() and pResolve(data), lines 116-117
PostResolveDone(i) ==
    /\ pc[i] = "postResolve"
    /\ Awaited(dispatched[i])
    /\ dispatched[i].kind # "throw"
    /\ ended' = [ended EXCEPT ![span[i]] = @ + 1]
    /\ settled' = [settled EXCEPT ![i] = Append(@, Fulfilment(data[i]))]
    /\ Traced(i, SuccessExit)
    /\ pc' = [pc EXCEPT ![i] = "done"]
    /\ UNCHANGED << hooks, call, span, data, err, hookFnContext, running, dispatched,
                    spansCreated, started, tracing, hookLog, resolverCalls, resolved,
                    middlewareOptions, spanOptions >>

\* the await of line 110 throws inside the try block: the catch clause of
\* line 118 binds the hook's error and starts the resolveError dispatch
PostResolveThrew(i) ==
    /\ pc[i] = "postResolve"
    /\ dispatched[i].kind = "throw"
    /\ err' = [err EXCEPT ![i] = dispatched[i].value]
    /\ runHook(i, "resolveError", ErrRecord(call[i], span[i], dispatched[i].value))
    /\ pc' = [pc EXCEPT ![i] = "resolveError"]
    /\ UNCHANGED << hooks, call, span, data, spansCreated, started, ended, tracing,
                    resolverCalls, resolved, settled, middlewareOptions, spanOptions,
                    trace >>

\* the await of line 120 returns: span.end() and pReject(err), lines 127-128
ResolveErrorDone(i) ==
    /\ pc[i] = "resolveError"
    /\ Awaited(dispatched[i])
    /\ dispatched[i].kind # "throw"
    /\ ended' = [ended EXCEPT ![span[i]] = @ + 1]
    /\ settled' = [settled EXCEPT ![i] = Append(@, Rejection(err[i]))]
    /\ Traced(i, FailureExit)
    /\ pc' = [pc EXCEPT ![i] = "done"]
    /\ UNCHANGED << hooks, call, span, data, err, hookFnContext, running, dispatched,
                    spansCreated, started, tracing, hookLog, resolverCalls, resolved,
                    middlewareOptions, spanOptions >>

\* the await of line 120 throws inside the catch clause: the async callback
\* ends with a rejected promise that is dropped, before lines 127-128
ResolveErrorThrew(i) ==
    /\ pc[i] = "resolveError"
    /\ dispatched[i].kind = "throw"
    /\ pc' = [pc EXCEPT ![i] = "aborted"]
    /\ UNCHANGED << hooks, call, span, data, err, hookFnContext, running, dispatched,
                    spansCreated, started, ended, tracing, hookLog, resolverCalls,
                    resolved, settled, middlewareOptions, spanOptions, trace >>

Next ==
    \/ \E i \in Invs, p \in Parents, a \in Args, c \in Contexts, f \in Infos :
           Invoke(i, p, a, c, f)
    \/ \E i \in Invs, k \in 1 .. MaxHooks : HookReturns(i, k)
    \/ \E i \in Invs, k \in 1 .. MaxHooks, h \in HookErrors : HookThrows(i, k, h)
    \/ \E i \in Invs : PreResolveDone(i)
    \/ \E i \in Invs : PreResolveThrew(i)
    \/ \E i \in Invs, v \in Values : ResolverReturns(i, v)
    \/ \E i \in Invs, e \in Errors : ResolverThrows(i, e)
    \/ \E i \in Invs : PostResolveDone(i)
    \/ \E i \in Invs : PostResolveThrew(i)
    \/ \E i \in Invs : ResolveErrorDone(i)
    \/ \E i \in Invs : ResolveErrorThrew(i)

Spec == Init /\ [][Next]_vars

\* The middleware built with any rootSpanOptions, and at most one hook function
\* registered.
InitOptions ==
    /\ hooks \in { r \in Registries : Registered(r) <= 1 }
    /\ pc = [i \in Invs |-> "idle"]
    /\ call = [i \in Invs |-> NoCall]
    /\ span = [i \in Invs |-> Undefined]
    /\ data = [i \in Invs |-> Undefined]
    /\ err = [i \in Invs |-> Undefined]
    /\ hookFnContext = [i \in Invs |-> NoRecord]
    /\ running = [i \in Invs |-> {}]
    /\ dispatched = [i \in Invs |-> Pending]
    /\ spansCreated = 0
    /\ started = [s \in Spans |-> 0]
    /\ ended = [s \in Spans |-> 0]
    /\ tracing = [c \in Contexts |-> NoTracing]
    /\ hookLog = [i \in Invs |-> << >>]
    /\ resolverCalls = [i \in Invs |-> << >>]
    /\ resolved = [i \in Invs |-> Pending]
    /\ settled = [i \in Invs |-> << >>]
    /\ middlewareOptions \in [rootSpanOptions : RootSpanOptions]
    /\ spanOptions = [i \in Invs |-> Unset]
    /\ trace = [i \in Invs |-> << >>]

SpecOptions == InitOptions /\ [][Next]_vars

\* ------------------------------------------------------------ claims
\* the async callback of an invocation has run to its end: it returned after
\* settling the promise ("done") or it threw ("aborted")
Terminal(i) == pc[i] \in {"done", "aborted"}
Invoked(i) == pc[i] # "idle"

\* the events of a log that belong to the dispatch of one lifecycle name
Of(log, name) == SelectSeq(log, LAMBDA e : e.name = name)

\* the hook functions registered under a name (none unless it holds an array)
Fns(name) == IF IsArray(hooks[name]) THEN Len(hooks[name].fns) ELSE 0

\* the hook functions of a log that were called and have not completed
InProgress(log) ==
    { q \in 1 .. Len(log) :
        /\ log[q].ev = "call"
        /\ ~ \E r \in q + 1 .. Len(log) :
               /\ log[r].ev \in {"return", "throw"}
               /\ log[r].name = log[q].name
               /\ log[r].k = log[q].k }

\* the outcome the wrapped resolver alone would give its caller
Mirror(r) == IF r.kind = "return" THEN Fulfilment(r.value) ELSE Rejection(r.value)

\* C1: in every invocation span.start() and span.end() are each called exactly
\* once on the invocation's root span, whichever path the callback took to its
\* end (resolver success, resolver failure, failure of a hook).
C1_SpanStartedAndEndedOnce ==
    \A i \in Invs :
        /\ Invoked(i) => started[span[i]] <= 1 /\ ended[span[i]] <= 1
        /\ Terminal(i) => started[span[i]] = 1 /\ ended[span[i]] = 1

\* C2: when the wrapped resolver failed with E, every resolveError hook was
\* called with a record whose err is E, and once the callback has run to its
\* end the promise has been rejected with that same E.
C2_ResolverErrorReachesCaller ==
    \A i \in Invs :
        resolved[i].kind = "throw" =>
            /\ \A q \in 1 .. Len(hookLog[i]) :
                   hookLog[i][q].name = "resolveError" =>
                       hookLog[i][q].rec.err = resolved[i].value
            /\ Terminal(i) => settled[i] = << Rejection(resolved[i].value) >>

\* a log in which the hooks ran one at a time and in registration order: a
\* hook is called first in its dispatch as number 1, or right after the hook
\* before it in the array has returned, and each completion is that of the
\* hook called last
Serial(log) ==
    \A q \in 1 .. Len(log) :
        IF log[q].ev = "call"
        THEN IF q = 1 \/ log[IF q = 1 THEN 1 ELSE q - 1].name # log[q].name
             THEN /\ log[q].k = 1
                  /\ q > 1 => log[q - 1].ev \in {"return", "throw"}
             ELSE /\ log[q - 1].ev = "return"
                  /\ log[q - 1].k + 1 = log[q].k
        ELSE /\ q > 1
             /\ log[q - 1].ev = "call"
             /\ log[q - 1].name = log[q].name
             /\ log[q - 1].k = log[q].k

\* every hook function registered under a name has been called and has
\* returned, in registration order
AllReturned(log, name) ==
    LET l == Of(log, name)
        n == Fns(name)
    IN /\ Len(l) = 2 * n
       /\ \A m \in 1 .. n :
              /\ l[2 * m - 1].ev = "call" /\ l[2 * m - 1].k = m
              /\ l[2 * m].ev = "return" /\ l[2 * m].k = m

\* C3: when the wrapped resolver succeeded with v, the postResolve hooks run
\* after the resolver has returned and before the promise is fulfilled, and the
\* record each of them is given has resolvedData = v.
C3_PostResolveBetweenReturnAndFulfil ==
    \A i \in Invs :
        LET log == hookLog[i]
        IN /\ \A q \in 1 .. Len(log) :
                  log[q].name = "postResolve" =>
                      /\ resolved[i].kind = "return"
                      /\ log[q].rec.resolvedData = resolved[i].value
           /\ settled[i] # << >> =>
                  ~ \E q \in InProgress(log) : log[q].name = "postResolve"
           /\ (\E q \in 1 .. Len(settled[i]) : settled[i][q].kind = "fulfilled")
                  => resolved[i].kind = "return" /\ AllReturned(log, "postResolve")

C3_Witness ==
    \E i \in Invs :
        /\ Fns("postResolve") = 2
        /\ settled[i] = << Fulfilment("v1") >>
        /\ AllReturned(hookLog[i], "postResolve")

\* C4: the wrapped resolver is not called until every registered preResolve
\* hook has been called, in registration order, and has returned; once the
\* resolver has been called no preResolve hook starts or is in progress.
C4_PreResolveBeforeResolver ==
    \A i \in Invs :
        /\ Serial(Of(hookLog[i], "preResolve"))
        /\ resolverCalls[i] # << >> =>
               /\ AllReturned(hookLog[i], "preResolve")
               /\ ~ \E q \in InProgress(hookLog[i]) : hookLog[i][q].name = "preResolve"
               /\ pc[i] # "preResolve"

C4_Witness ==
    \E i \in Invs :
        /\ Fns("preResolve") = 2
        /\ pc[i] = "resolve"
        /\ Len(resolverCalls[i]) = 1

\* no hook function is registered under any name
NoHooks == \A name \in HookNames : Fns(name) = 0

\* C5: with no hook registered (every key absent, not an array, or an empty
\* array) no hook runs, the callback always reaches its end by settling the
\* promise, and the outcome is the resolver's own: fulfilled with v when it
\* returned v, rejected with E when it threw E, with one span created, started
\* once and ended once.
C5_NoHooksTransparent ==
    NoHooks =>
        /\ spansCreated = Cardinality({ i \in Invs : Invoked(i) })
        /\ \A i \in Invs :
               /\ hookLog[i] = << >>
               /\ pc[i] # "aborted"
               /\ pc[i] \in HookNames => dispatched[i] = Ok
               /\ pc[i] = "done" =>
                      /\ settled[i] = << Mirror(resolved[i]) >>
                      /\ started[span[i]] = 1
                      /\ ended[span[i]] = 1
               /\ pc[i] # "done" => settled[i] = << >>

C5_Witness ==
    /\ hooks = [preResolve |-> NotArray, postResolve |-> NotArray, resolveError |-> ArrayOf(0)]
    /\ \E i \in Invs : pc[i] = "done" /\ settled[i] = << Rejection("E1") >>
    /\ \E i \in Invs : pc[i] = "done" /\ settled[i] = << Fulfilment("v1") >>

\* C6: within one dispatch the hooks run one at a time in registration order:
\* hook k + 1 is called only after hook k has returned, and at no point are two
\* hooks of one invocation in progress.
C6_HooksSerial ==
    \A i \in Invs :
        /\ Cardinality(running[i]) <= 1
        /\ Cardinality(InProgress(hookLog[i])) <= 1
        /\ Serial(hookLog[i])

C6_Witness ==
    \E i \in Invs :
        /\ pc[i] = "postResolve"
        /\ running[i] = {2}
        /\ \E q \in 1 .. Len(hookLog[i]) :
               hookLog[i][q].ev = "return" /\ hookLog[i][q].name = "postResolve"

\* a hook of the invocation has thrown
HookFailed(i) == \E q \in 1 .. Len(hookLog[i]) : hookLog[i][q].ev = "throw"

\* C7: every invocation whose hooks and resolver terminate delivers an outcome:
\* when the callback has run to its end the promise is fulfilled or rejected,
\* the span has been ended, and a failure of a hook has been surfaced as a
\* rejection.
C7_OutcomeDelivered ==
    \A i \in Invs :
        Terminal(i) =>
            /\ settled[i] # << >>
            /\ ended[span[i]] = 1
            /\ HookFailed(i) => settled[i][1].kind = "rejected"

\* C8 as claimed: a delivered outcome is the resolver's own, whatever the hooks
\* did: fulfilled with v iff the resolver returned v, rejected with E iff it
\* threw E.
C8_OutcomeMirrorsResolver ==
    \A i \in Invs :
        settled[i] # << >> => settled[i][1] = Mirror(resolved[i])

\* a postResolve hook of the invocation threw h
PostResolveFailedWith(i, h) ==
    \E q \in 1 .. Len(hookLog[i]) :
        /\ hookLog[i][q].name = "postResolve"
        /\ hookLog[i][q].ev = "throw"
        /\ hookLog[i][q].value = h

\* C8 as amended: a delivered outcome is the resolver's own (fulfilled with v
\* when it returned v, rejected with E when it threw E, whatever the
\* preResolve and resolveError hooks did), except that when the resolver
\* returned and a postResolve hook then threw H the promise is rejected with H.
\* No hook turns a resolver failure into a success or changes v or E.
C8_OutcomeMirrorsResolverUnlessPostHookThrew ==
    \A i \in Invs :
        settled[i] # << >> =>
            /\ resolved[i] # Pending
            /\ IF resolved[i].kind = "return" /\ HookFailed(i)
               THEN /\ settled[i][1].kind = "rejected"
                    /\ PostResolveFailedWith(i, settled[i][1].value)
               ELSE settled[i][1] = Mirror(resolved[i])

C8_Witness ==
    \E i \in Invs :
        /\ resolved[i] = [kind |-> "return", value |-> "v1"]
        /\ PostResolveFailedWith(i, "H1")
        /\ AllReturned(hookLog[i], "resolveError")
        /\ Fns("resolveError") = 1
        /\ settled[i] = << Rejection("H1") >>

\* C9: in every invocation the wrapped resolver is called at most once, also
\* after it or a hook failed, and it is called with exactly the parent, args,
\* context and info the middleware was called with.
C9_ResolverCalledOnceWithOriginalArgs ==
    \A i \in Invs :
        /\ Len(resolverCalls[i]) <= 1
        /\ \A q \in 1 .. Len(resolverCalls[i]) :
               resolverCalls[i][q] =
                   << call[i].parent, call[i].args, call[i].context, call[i].info >>

C9_Witness ==
    \E i \in Invs :
        /\ pc[i] = "aborted"
        /\ resolved[i].kind = "throw"
        /\ resolverCalls[i] = << << "parent", "args", call[i].context, "info" >> >>

\* C10: from the opening of an invocation's root span until the invocation
\* ends, the tracing field of its context holds the factory's tracer and that
\* invocation's root span, and every hook record of the invocation carries
\* that same span as rootSpan.
C10_TracingHandleIsOwnSpan ==
    \A i \in Invs :
        Invoked(i) /\ ~Terminal(i) =>
            /\ tracing[call[i].context] = [tracer |-> tracer, rootSpan |-> span[i]]
            /\ \A q \in 1 .. Len(hookLog[i]) :
                   hookLog[i][q].rec.rootSpan = tracing[call[i].context].rootSpan

\* how often an invocation's trace holds the call op
Count(tr, op) == Cardinality({ n \in 1 .. Len(tr) : tr[n].op = op })

\* each invocation has one root span of its own, on which alone it calls
\* start() and end(), and which is the rootSpan of all its hook records
OwnSpans ==
    /\ spansCreated = Cardinality({ i \in Invs : Invoked(i) })
    /\ \A s \in Spans :
           (\A i \in Invs : span[i] # s) => started[s] = 0 /\ ended[s] = 0
    /\ \A i \in Invs :
           Invoked(i) =>
               /\ Count(trace[i], "startRootSpan") = 1
               /\ span[i] \in Spans
               /\ \A j \in Invs : j # i => span[j] # span[i]
               /\ started[span[i]] = Count(trace[i], "span.start")
               /\ ended[span[i]] = Count(trace[i], "span.end")
               /\ \A q \in 1 .. Len(hookLog[i]) : hookLog[i][q].rec.rootSpan = span[i]

\* C11: under any interleaving of the invocations of one middleware instance,
\* each invocation creates exactly one root span, every span.start(),
\* span.end() and hook record of an invocation refers to that invocation's own
\* span, and no step changes the hook registry.
C11_InvocationsIndependent == [](OwnSpans) /\ [][hooks' = hooks]_vars

C11_Witness ==
    \E i, j \in Invs :
        /\ i # j
        /\ call[i].context = call[j].context
        /\ pc[i] = "postResolve" /\ running[i] = {1}
        /\ pc[j] = "resolveError" /\ running[j] = {1}
        /\ tracing[call[i].context].rootSpan = span[j]

\* C12: the root span is opened with middlewareOptions.rootSpanOptions when it
\* is set and with the default options, named "graphqlRequest", when it is
\* unset; the options handed to the tracer always carry a span name.
C12_RootSpanOptions ==
    \A i \in Invs :
        Invoked(i) =>
            /\ middlewareOptions.rootSpanOptions # Unset =>
                   spanOptions[i] = middlewareOptions.rootSpanOptions
            /\ middlewareOptions.rootSpanOptions = Unset =>
                   spanOptions[i] = TraceOptions("graphqlRequest")
            /\ spanOptions[i].kind = "object"
            /\ spanOptions[i].name # Undefined

C12_Witness ==
    /\ middlewareOptions.rootSpanOptions = Unset
    /\ \E i \in Invs : pc[i] = "done" /\ spanOptions[i].name = "graphqlRequest"

\* C13: when a hook of a dispatch throws, no hook registered after it under
\* that name is called in that dispatch, and the dispatch fails with that
\* hook's error: runHook's promise is rejected with it, and the middleware's
\* await of the dispatch throws it (into the catch clause for postResolve, out
\* of the callback for preResolve and resolveError).
C13_HookFailureAbortsDispatch ==
    \A i \in Invs :
        LET log == hookLog[i]
        IN \A q \in 1 .. Len(log) :
               log[q].ev = "throw" =>
                   /\ \A r \in q + 1 .. Len(log) : log[r].name # log[q].name
                   /\ IF pc[i] = log[q].name
                      THEN running[i] = {} /\ dispatched[i] = Thrown(log[q].value)
                      ELSE IF log[q].name = "postResolve"
                           THEN err[i] = log[q].value
                           ELSE pc[i] = "aborted"

C13_Witness ==
    \E i \in Invs :
        /\ Fns("resolveError") = 2
        /\ pc[i] = "aborted"
        /\ Len(Of(hookLog[i], "resolveError")) = 2
        /\ hookLog[i][Len(hookLog[i])] =
               Event("throw", "resolveError", 1, hookFnContext[i], "H1")

\* the resolveError dispatch of an invocation has been started
ResolveErrorDispatched(i) ==
    \/ pc[i] = "resolveError"
    \/ Count(trace[i], "pReject") > 0
    \/ \E q \in 1 .. Len(hookLog[i]) : hookLog[i][q].name = "resolveError"

\* the postResolve dispatch of an invocation has been started
PostResolveDispatched(i) ==
    \/ pc[i] = "postResolve"
    \/ Count(trace[i], "pResolve") > 0
    \/ \E q \in 1 .. Len(hookLog[i]) : hookLog[i][q].name = "postResolve"
    \/ resolved[i].kind = "return"

\* C14: the resolveError hooks are dispatched in an invocation only when the
\* wrapped resolver itself failed, and postResolve and resolveError are never
\* both dispatched in one invocation.
C14_ErrorHooksOnlyOnResolverFailure ==
    \A i \in Invs :
        /\ ResolveErrorDispatched(i) => resolved[i].kind = "throw"
        /\ ~(PostResolveDispatched(i) /\ ResolveErrorDispatched(i))

\* C15: whenever an outcome has been delivered (pResolve or pReject called),
\* span.end() was called before it, and the postResolve dispatch (for a
\* fulfilment) or the resolveError dispatch (for a rejection) had completed
\* before span.end(): hooks, then span end, then delivery.
C15_HooksThenSpanEndThenOutcome ==
    \A i \in Invs :
        LET tr == trace[i]
            log == hookLog[i]
            n == Len(tr)
        IN /\ Len(settled[i]) = Count(tr, "pResolve") + Count(tr, "pReject")
           /\ settled[i] # << >> =>
                  /\ ended[span[i]] = 1
                  /\ n >= 2
                  /\ tr[n].op = IF settled[i][1].kind = "fulfilled" THEN "pResolve" ELSE "pReject"
                  /\ tr[n - 1].op = "span.end"
                  /\ tr[n - 1].at = Len(log) /\ tr[n].at = Len(log)
                  /\ InProgress(log) = {}
                  /\ AllReturned(log, IF settled[i][1].kind = "fulfilled"
                                      THEN "postResolve" ELSE "resolveError")

C15_Witness ==
    \E i \in Invs :
        /\ Fns("resolveError") = 2
        /\ settled[i] = << Rejection("E1") >>
        /\ ended[span[i]] = 1
        /\ AllReturned(hookLog[i], "resolveError")

\* C16: span.start() is called after the preResolve dispatch has completed
\* and immediately before the call of the wrapped resolver: no hook event lies
\* between the two calls, and span.start() is never called before or during the
\* preResolve hooks.
C16_SpanStartRightBeforeResolver ==
    \A i \in Invs :
        LET tr == trace[i]
        IN /\ pc[i] = "preResolve" => started[span[i]] = 0 /\ Count(tr, "span.start") = 0
           /\ Count(tr, "span.start") = Len(resolverCalls[i])
           /\ \A n \in 1 .. Len(tr) :
                  tr[n].op = "span.start" =>
                      /\ tr[n].at = 2 * Fns("preResolve")
                      /\ AllReturned(hookLog[i], "preResolve")
                      /\ n < Len(tr)
                      /\ tr[n + 1].op = "resolve"
                      /\ tr[n + 1].at = tr[n].at
           /\ \A n \in 1 .. Len(tr) :
                  tr[n].op = "resolve" => n > 1 /\ tr[n - 1].op = "span.start"

C16_Witness ==
    \E i \in Invs :
        /\ Fns("preResolve") = 2
        /\ pc[i] = "resolve"
        /\ started[span[i]] = 1
        /\ trace[i][Len(trace[i])] = [op |-> "resolve", at |-> 4]

\* a preResolve hook of the invocation has thrown
PreResolveFailed(i) ==
    \E q \in 1 .. Len(hookLog[i]) :
        hookLog[i][q].name = "preResolve" /\ hookLog[i][q].ev = "throw"

\* C17: if a preResolve hook fails, the wrapped resolver is never called in
\* that invocation and neither the postResolve nor the resolveError hooks are
\* dispatched for it.
C17_PreHookFailureSkipsResolver ==
    \A i \in Invs :
        PreResolveFailed(i) =>
            /\ resolverCalls[i] = << >>
            /\ Count(trace[i], "resolve") = 0
            /\ resolved[i] = Pending
            /\ pc[i] \in {"preResolve", "aborted"}
            /\ ~PostResolveDispatched(i)
            /\ ~ResolveErrorDispatched(i)

C17_Witness ==
    \E i \in Invs :
        /\ Fns("preResolve") = 1
        /\ Fns("resolveError") = 1
        /\ PreResolveFailed(i)
        /\ pc[i] = "aborted"

\* C18: in every invocation the outcome is delivered at most once: pResolve
\* and pReject are called at most once in total, never both and never twice.
C18_SettledAtMostOnce ==
    \A i \in Invs :
        /\ Len(settled[i]) <= 1
        /\ Count(trace[i], "pResolve") + Count(trace[i], "pReject") = Len(settled[i])
        /\ (Len(settled[i]) = 1 => pc[i] = "done")

\* the resolver returned, a postResolve hook threw and the invocation went
\* through the catch clause to the end: one settlement, the rejection
C18_Witness ==
    \E i \in Invs :
        /\ pc[i] = "done"
        /\ resolved[i].kind = "return"
        /\ HookFailed(i)
        /\ Len(settled[i]) = 1
        /\ settled[i][1].kind = "rejected"

\* a hook function or the wrapped resolver of the invocation is in progress
HookOrResolverRuns(i) ==
    \/ running[i] # {}
    \/ pc[i] = "resolve" /\ resolved[i] = Pending

\* C19: when two concurrent invocations are given the same context object,
\* then whenever a hook or the wrapped resolver of one of them runs,
\* context.tracing.rootSpan is that invocation's own root span, the rootSpan
\* of its hook records, not the span of the other invocation.
C19_SharedContextKeepsOwnSpan ==
    \A i \in Invs : \A j \in Invs \ {i} :
        /\ Invoked(i)
        /\ Invoked(j)
        /\ call[i].context = call[j].context
        /\ HookOrResolverRuns(i)
        => /\ tracing[call[i].context].rootSpan = span[i]
           /\ tracing[call[i].context].rootSpan # span[j]
           /\ (running[i] # {} =>
                  hookFnContext[i].rootSpan = tracing[call[i].context].rootSpan)

====
